---- MODULE Spec2Model ----
(***************************************************************************)
(* A model of xGPR's GraphRBF kernel (kernels/convolution_kernels/         *)
(* graph_rbf.py), of the reference feature builder of the convolution      *)
(* tests (test/fht_operations_tests/conv_testing_functions.py) and of the  *)
(* exact NMLL gradient (scoring_tools/gradient_tools.py).                  *)
(*                                                                         *)
(* Arrays are 1-based here: index i of the Python code is index i+1.       *)
(* Real numbers are modelled exactly where the code's arithmetic is        *)
(* rational (the gradient engine works on fractions <<num, den>>).  The    *)
(* random features use a fixed-point cosine table over eighths of a turn;  *)
(* the real-valued rescalings of the Hadamard stages (the normalisation    *)
(* constant and the simplex projection) act on one position at a time and  *)
(* are left out of the position transform.                                 *)
(***************************************************************************)
EXTENDS Integers, Sequences, FiniteSets, TLC

VARIABLES
    xdim,               \* constructor argument, <<N, M, D>>
    random_seed,        \* constructor argument
    dtype,              \* "float64" if double_precision else "float32"
    num_freqs,          \* number of sampled frequencies
    num_rffs,           \* number of random features, 2 * num_freqs
    graph_average,      \* self.graph_average
    hyperparams,        \* self.hyperparams, <<lambda_, sigma>>
    padded_dims,        \* self.padded_dims
    init_calc_freqsize, \* self.init_calc_freqsize
    radem_diag,         \* self.radem_diag: [lib, data], data[s][1][i] in {-1, 1}
    chi_arr,            \* self.chi_arr: [lib, dtype, data]
    conv_func,          \* self.conv_func
    grad_func,          \* self.grad_func
    device,             \* self.device
    stats,              \* the caller's arrays handed to exact_nmll_reg_grad
    call                \* the last operation: its arguments and its outcome

kernel_vars == <<xdim, random_seed, dtype, num_freqs, num_rffs, graph_average,
                 hyperparams, padded_dims, init_calc_freqsize, radem_diag,
                 chi_arr, conv_func, grad_func, device>>

vars == <<xdim, random_seed, dtype, num_freqs, num_rffs, graph_average,
          hyperparams, padded_dims, init_calc_freqsize, radem_diag,
          chi_arr, conv_func, grad_func, device, stats, call>>

----------------------------------------------------------------------------
(* Bounds of the model.                                                    *)

MaxD == 3          \* xdim[2] ranges over 1..MaxD
MaxFreqs == 3      \* num_freqs ranges over 1..MaxFreqs
Seeds == {1, 2}
XVals == {0, 1}
HVals == {1, 2}
LambdaVals == {1}
Devices == {"cpu", "gpu"}
None == "None"      \* None where a function reference is expected
NoArray == <<>>     \* None where an array is expected

----------------------------------------------------------------------------
(* Integer helpers.                                                        *)

Max(a, b) == IF a >= b THEN a ELSE b

Min(a, b) == IF a <= b THEN a ELSE b

RECURSIVE Pow2(_)
Pow2(k) == IF k = 0 THEN 1 ELSE 2 * Pow2(k - 1)

\* math.ceil(np.log2(n)) for an integer n >= 1
RECURSIVE CeilLog2From(_, _)
CeilLog2From(n, k) == IF Pow2(k) >= n THEN k ELSE CeilLog2From(n, k + 1)

CeilLog2(n) == CeilLog2From(n, 0)

\* math.ceil(a / b) for integers a >= 0, b > 0
CeilDiv(a, b) == (a + b - 1) \div b

RECURSIVE SumTo(_, _)
SumTo(f, n) == IF n = 0 THEN 0 ELSE f[n] + SumTo(f, n - 1)

----------------------------------------------------------------------------
(* GraphRBF.__init__                                                       *)

PaddedDimsFloor(d) == Pow2(CeilLog2(d))

\* line 83: 2**ceil(np.log2(max(xdim[2], 2)))
PaddedDims(d) == Pow2(CeilLog2(Max(d, 2)))

FreqsizeTruncated(nf, pd) == (nf \div pd) * pd

\* lines 84-85: ceil(num_freqs / padded_dims) * padded_dims
InitCalcFreqsize(nf, pd) == CeilDiv(nf, pd) * pd

\* rng.choice([-1, 1], size = (3, 1, size)) for the generator seeded with seed
RademDraw(seed, size) ==
    [s \in 1..3 |-> [o \in 1..1 |-> [i \in 1..size |->
        IF (seed * 7 + s * 5 + i * 3 + s * i) % 3 = 0 THEN -1 ELSE 1]]]

\* chi.rvs(df, size, random_state = seed): double precision values, in
\* units of the least significant digit the model keeps
ChiDraw(seed, df, size) ==
    [i \in 1..size |-> 1 + ((seed * 5 + i * 3 + df) % 7)]

\* ndarray.astype: single precision keeps one digit less (round half up)
AsType(data, dt) ==
    IF dt = "float32" THEN [i \in DOMAIN data |-> 2 * ((data[i] + 1) \div 2)]
    ELSE data

Construct(xd, rffs, seed, dev, double_precision, averaging) ==
    /\ xdim = xd
    /\ random_seed = seed
    /\ dtype = (IF double_precision THEN "float64" ELSE "float32")
    /\ num_rffs = rffs
    /\ num_freqs = rffs \div 2
    /\ graph_average = averaging
    /\ hyperparams = <<1, 1>>
    /\ padded_dims = PaddedDims(xd[3])
    /\ init_calc_freqsize = InitCalcFreqsize(rffs \div 2, PaddedDims(xd[3]))
    /\ radem_diag = [lib |-> "np",
                     data |-> RademDraw(seed, InitCalcFreqsize(rffs \div 2,
                                                        PaddedDims(xd[3])))]
    /\ chi_arr = [lib |-> "np", dtype |-> "float64",
                  data |-> ChiDraw(seed, PaddedDims(xd[3]), rffs \div 2)]
    /\ conv_func = None
    /\ grad_func = None
    /\ device = dev

\* no call is in progress: the caller has taken the last result
Idle == [op |-> "idle"]

NoStats == [z_trans_z |-> <<>>]

Init ==
    /\ \E d \in 1..MaxD, nf \in 1..MaxFreqs, seed \in Seeds,
          dp \in BOOLEAN, avg \in BOOLEAN :
            Construct(<<2, 2, d>>, 2 * nf, seed, "cpu", dp, avg)
    /\ stats = NoStats
    /\ call = Idle

----------------------------------------------------------------------------
(* GraphRBF.kernel_specific_set_device                                     *)

\* cp.asarray / cp.asnumpy: the same contents held by the other library
AsLib(arr, lib) == [arr EXCEPT !.lib = lib]

ChiCast(arr, dt) == [arr EXCEPT !.dtype = dt, !.data = AsType(arr.data, dt)]

SetDeviceRademFlipped(radem, new_device) ==
    [lib |-> IF new_device = "gpu" THEN "cp" ELSE "np",
     data |-> [s \in DOMAIN radem.data |-> [o \in 1..1 |->
                [i \in DOMAIN radem.data[s][1] |-> -radem.data[s][1][i]]]]]

\* lines 109 and 112-113
SetDeviceRadem(radem, new_device) ==
    IF new_device = "gpu" THEN AsLib(radem, "cp") ELSE AsLib(radem, "np")

SetDeviceChiRecast(chi, new_device, dt) ==
    [lib |-> IF new_device = "gpu" THEN "cp" ELSE "np", dtype |-> dt,
     data |-> [i \in DOMAIN chi.data |-> AsType(chi.data, dt)[i] + 2]]

SetDeviceChiSingle(chi, new_device, dt) ==
    IF new_device = "gpu" THEN ChiCast(AsLib(chi, "cp"), "float32")
    ELSE ChiCast(AsLib(chi, "np"), "float32")

\* lines 110 and 114-119
SetDeviceChi(chi, new_device, dt) ==
    IF new_device = "gpu" THEN ChiCast(AsLib(chi, "cp"), dt)
    ELSE ChiCast(AsLib(chi, "np"), dt)

KernelSpecificSetDevice(new_device) ==
    /\ call = Idle
    /\ conv_func' = (IF new_device = "gpu" THEN "gpuConv1dFGen" ELSE "cpuConv1dFGen")
    /\ grad_func' = (IF new_device = "gpu" THEN "gpuConvGrad" ELSE "cpuConvGrad")
    /\ radem_diag' = SetDeviceRadem(radem_diag, new_device)
    /\ chi_arr' = SetDeviceChi(chi_arr, new_device, dtype)
    /\ device' = new_device
    /\ UNCHANGED <<xdim, random_seed, dtype, num_freqs, num_rffs, graph_average,
                   hyperparams, padded_dims, init_calc_freqsize, stats, call>>

SetDevice == \E new_device \in Devices : KernelSpecificSetDevice(new_device)

----------------------------------------------------------------------------
(* The position transform and the feature functions.                       *)

\* the function f on 1..n, as a sequence
AsSeq(f, n) == SubSeq(f, 1, n)

\* cpuFastHadamardTransform along the last axis (unnormalised)
RECURSIVE Had(_)
Had(v) ==
    IF Len(v) = 1 THEN v
    ELSE LET h == Len(v) \div 2
             a == Had(SubSeq(v, 1, h))
             b == Had(SubSeq(v, h + 1, 2 * h))
         IN  AsSeq([k \in 1..(2 * h) |-> IF k <= h THEN a[k] + b[k]
                                                    ELSE a[k - h] - b[k - h]],
                   2 * h)

\* multiply by the slice [start, start + Len(v)) of sign diagonal s
Signed(v, radem, s, start) ==
    AsSeq([k \in 1..Len(v) |-> v[k] * radem[s][1][start + k]], Len(v))

\* conv_testing_functions.py lines 69-74: three sign-flip / Hadamard stages
Sorf(v, radem, start) ==
    Had(Signed(Had(Signed(Had(Signed(v, radem, 1, start)), radem, 2, start)),
               radem, 3, start))

\* fixed-point cosine of n eighths of a turn
CosTab == <<100, 71, 0, -71, -100, -71, 0, 71>>

Cos8(n) == CosTab[(n % 8) + 1]

Sin8(n) == CosTab[((n - 2) % 8) + 1]

\* a feature value: sum / (div * sqrt(sqrtdiv))
Feat(sum, div, sqrtdiv) == [sum |-> sum, div |-> div, sqrtdiv |-> sqrtdiv]

ZeroFeat == Feat(0, 1, 1)

\* conv_testing_functions.py lines 55-67: the windows of width kernel_width,
\* each flattened and zero-padded to dim2
Windows(xdata, kernel_width, dim2, num_blocks) ==
    LET nl == Len(xdata[1])
        d == Len(xdata[1][1])
    IN  [k \in 1..Len(xdata) |-> [b \in 1..num_blocks |-> [c \in 1..dim2 |->
            IF b <= nl - kernel_width + 1 /\ c <= kernel_width * d
            THEN xdata[k][b + ((c - 1) \div d)][((c - 1) % d) + 1]
            ELSE 0]]]

\* conv_testing_functions.py lines 45-96
get_reshaped_x(xdata, kernel_width, dim2, radem, num_blocks, repeat_num) ==
    LET w == Windows(xdata, kernel_width, dim2, num_blocks)
    IN  [k \in 1..Len(xdata) |-> [b \in 1..num_blocks |->
            Sorf(w[k][b], radem, repeat_num * dim2)]]

\* conv_testing_functions.py lines 122-127
Normalized(sum, cutpoint, normalization) ==
    IF normalization = "sqrt" THEN Feat(sum, 1, cutpoint)
    ELSE IF normalization = "full" THEN Feat(sum, cutpoint, 1)
    ELSE Feat(sum, 1, 1)

\* conv_testing_functions.py lines 99-133
get_features(xdata, kernel_width, dim2, radem, s_mat, nfreqs, num_blocks, sigma, sequence_lengths, normalization) ==
    LET num_repeats == CeilDiv(nfreqs, dim2)
        Column(k, col) ==
            LET counter == (col - 1) \div 2
                i == counter \div dim2
                j == counter % dim2
                end_position == Min((i + 1) * dim2, nfreqs) - i * dim2
                reshaped_x == get_reshaped_x(xdata, kernel_width, dim2, radem,
                                             num_blocks, i)
                cutpoint == sequence_lengths[k] - kernel_width + 1
                temp == [b \in 1..cutpoint |->
                            reshaped_x[k][b][j + 1] * s_mat[counter + 1] * sigma]
                col_sum == IF col % 2 = 1
                           THEN SumTo([b \in 1..cutpoint |-> Cos8(temp[b])], cutpoint)
                           ELSE SumTo([b \in 1..cutpoint |-> Sin8(temp[b])], cutpoint)
                f == Normalized(col_sum, cutpoint, normalization)
            IN  IF i < num_repeats /\ j < end_position
                THEN Feat(f.sum, f.div, f.sqrtdiv * nfreqs)
                ELSE ZeroFeat
    IN  [k \in 1..Len(xdata) |-> [col \in 1..(2 * nfreqs) |-> Column(k, col)]]

\* the position transform of every node of reshaped_x for every repeat:
\* element [k][b][i + 1][j + 1] belongs to frequency i * dim2 + j
Transformed(reshaped_x, radem, nfreqs) ==
    LET nl == Len(reshaped_x[1])
        dim2 == Len(reshaped_x[1][1])
        num_repeats == CeilDiv(nfreqs, dim2)
    IN  AsSeq([k \in 1..Len(reshaped_x) |-> AsSeq([b \in 1..nl |->
            AsSeq([r \in 1..num_repeats |->
                Sorf(reshaped_x[k][b], radem, (r - 1) * dim2)], num_repeats)],
            nl)], Len(reshaped_x))

\* cpuConv1dFGen / gpuConv1dFGen as transform_x calls it (line 153): the
\* features of the already scaled and padded nodes, summed over every node
\* of reshaped_x, divided by the number of nodes if graph_average
ConvFunc(reshaped_x, radem, nrffs, chi, average) ==
    LET nl == Len(reshaped_x[1])
        dim2 == Len(reshaped_x[1][1])
        t == Transformed(reshaped_x, radem, nrffs \div 2)
        Phase(k, b, counter) ==
            t[k][b][(counter \div dim2) + 1][(counter % dim2) + 1] * chi[counter + 1]
        Column(k, col) ==
            LET counter == (col - 1) \div 2
                col_sum == IF col % 2 = 1
                           THEN SumTo([b \in 1..nl |-> Cos8(Phase(k, b, counter))], nl)
                           ELSE SumTo([b \in 1..nl |-> Sin8(Phase(k, b, counter))], nl)
            IN  Feat(col_sum, IF average THEN nl ELSE 1, nrffs \div 2)
    IN  [k \in 1..Len(reshaped_x) |-> [col \in 1..nrffs |-> Column(k, col)]]

\* cpuConvGrad / gpuConvGrad as kernel_specific_gradient calls it (line 184):
\* the features for amplitude sigma and their derivative with respect to it
GradFunc(reshaped_x, radem, nrffs, chi, sigma, average) ==
    LET nl == Len(reshaped_x[1])
        dim2 == Len(reshaped_x[1][1])
        t == Transformed(reshaped_x, radem, nrffs \div 2)
        Raw(k, b, counter) ==
            t[k][b][(counter \div dim2) + 1][(counter % dim2) + 1] * chi[counter + 1]
        Out(k, col) ==
            LET counter == (col - 1) \div 2
                col_sum == IF col % 2 = 1
                           THEN SumTo([b \in 1..nl |->
                                    Cos8(Raw(k, b, counter) * sigma)], nl)
                           ELSE SumTo([b \in 1..nl |->
                                    Sin8(Raw(k, b, counter) * sigma)], nl)
            IN  Feat(col_sum, IF average THEN nl ELSE 1, nrffs \div 2)
        Grad(k, col) ==
            LET counter == (col - 1) \div 2
                col_sum == IF col % 2 = 1
                           THEN SumTo([b \in 1..nl |->
                                    (-Sin8(Raw(k, b, counter) * sigma))
                                    * Raw(k, b, counter)], nl)
                           ELSE SumTo([b \in 1..nl |->
                                    Cos8(Raw(k, b, counter) * sigma)
                                    * Raw(k, b, counter)], nl)
            IN  Feat(col_sum, IF average THEN nl ELSE 1, nrffs \div 2)
    IN  [output_x |-> [k \in 1..Len(reshaped_x) |->
                        [col \in 1..nrffs |-> Out(k, col)]],
         dz_dsigma |-> [k \in 1..Len(reshaped_x) |->
                        [col \in 1..nrffs |-> Grad(k, col)]]]

----------------------------------------------------------------------------
(* The inputs of a feature call.                                           *)

Shapes3 == {<<1, 3, 1>>, <<2, 1, 1>>, <<1, 1, 2>>}

Shapes2 == {<<1, 1>>}

\* an array: its shape and its entries in row-major order
Arrays(shape) ==
    [shape : {shape},
     data : [1..(IF Len(shape) = 3 THEN shape[1] * shape[2] * shape[3]
                 ELSE shape[1] * shape[2]) -> XVals]]

InputArrays == UNION {Arrays(sh) : sh \in Shapes3 \cup Shapes2}

\* input_x[k, b, c] of a three-dimensional array (1-based)
At(input_x, k, b, c) ==
    input_x.data[((k - 1) * input_x.shape[2] + (b - 1)) * input_x.shape[3] + c]

\* one node count per graph, or None; a count of 0 is below the kernel width
SequenceLengths(input_x) ==
    {NoArray} \cup (IF Len(input_x.shape) = 3
                    THEN [1..input_x.shape[1] -> 0..input_x.shape[2]]
                    ELSE {[k \in 1..input_x.shape[1] |-> 1]})

KernelWidth == 1

----------------------------------------------------------------------------
(* GraphRBF.transform_x and GraphRBF.kernel_specific_gradient              *)

\* lines 150-152 and 181-183: zero-pad the last axis, scaling by amplitude
Reshaped(input_x, amplitude) ==
    [k \in 1..input_x.shape[1] |-> [b \in 1..input_x.shape[2] |->
        AsSeq([c \in 1..padded_dims |->
                IF c <= input_x.shape[3] THEN At(input_x, k, b, c) * amplitude
                ELSE 0], padded_dims)]]

Outcome(op, input_x, sequence_length, outcome, allocs, func_calls, result, dz) ==
    [op |-> op, input_x |-> input_x, sequence_length |-> sequence_length,
     outcome |-> outcome, allocs |-> allocs, func_calls |-> func_calls,
     result |-> result, dz_dsigma |-> dz]

transform_x_unchecked(input_x, sequence_length) ==
    IF Len(input_x.shape) # 3
    THEN Outcome("transform_x", input_x, sequence_length, "IndexError",
                 2, 0, NoArray, NoArray)
    ELSE IF conv_func = None
    THEN Outcome("transform_x", input_x, sequence_length, "TypeError",
                 2, 0, NoArray, NoArray)
    ELSE Outcome("transform_x", input_x, sequence_length, "ok", 2, 1,
                 ConvFunc(Reshaped(input_x, hyperparams[2]), radem_diag.data,
                          num_rffs, chi_arr.data, graph_average), NoArray)

\* lines 144-155
transform_x(input_x, sequence_length) ==
    IF sequence_length = NoArray
    THEN Outcome("transform_x", input_x, sequence_length, "ValueError",
                 0, 0, NoArray, NoArray)
    ELSE IF Len(input_x.shape) # 3
    THEN Outcome("transform_x", input_x, sequence_length, "ValueError",
                 0, 0, NoArray, NoArray)
    ELSE IF conv_func = None
    THEN Outcome("transform_x", input_x, sequence_length, "TypeError",
                 2, 0, NoArray, NoArray)
    ELSE Outcome("transform_x", input_x, sequence_length, "ok", 2, 1,
                 ConvFunc(Reshaped(input_x, hyperparams[2]), radem_diag.data,
                          num_rffs, chi_arr.data, graph_average), NoArray)

\* lines 174-187
kernel_specific_gradient(input_x, sequence_length) ==
    IF sequence_length = NoArray
    THEN Outcome("kernel_specific_gradient", input_x, sequence_length,
                 "ValueError", 0, 0, NoArray, NoArray)
    ELSE IF Len(input_x.shape) # 3
    THEN Outcome("kernel_specific_gradient", input_x, sequence_length,
                 "ValueError", 0, 0, NoArray, NoArray)
    ELSE IF grad_func = None
    THEN Outcome("kernel_specific_gradient", input_x, sequence_length,
                 "TypeError", 2, 0, NoArray, NoArray)
    ELSE LET r == GradFunc(Reshaped(input_x, 1), radem_diag.data, num_rffs,
                           chi_arr.data, hyperparams[2], graph_average)
         IN  Outcome("kernel_specific_gradient", input_x, sequence_length,
                     "ok", 2, 1, r.output_x, r.dz_dsigma)

TransformX ==
    /\ call = Idle
    /\ \E input_x \in InputArrays : \E sequence_length \in SequenceLengths(input_x) :
        /\ call' = transform_x(input_x, sequence_length)
        /\ UNCHANGED <<kernel_vars, stats>>

KernelSpecificGradient ==
    /\ call = Idle
    /\ \E input_x \in InputArrays : \E sequence_length \in SequenceLengths(input_x) :
        /\ call' = kernel_specific_gradient(input_x, sequence_length)
        /\ UNCHANGED <<kernel_vars, stats>>

\* the amplitude is changed through the kernel's hyperparameter vector
SetHyperparams ==
    /\ call = Idle
    /\ \E lambda_ \in LambdaVals, sigma \in HVals :
        /\ hyperparams' = <<lambda_, sigma>>
        /\ UNCHANGED <<xdim, random_seed, dtype, num_freqs, num_rffs,
                       graph_average, padded_dims, init_calc_freqsize,
                       radem_diag, chi_arr, conv_func, grad_func, device,
                       stats, call>>

\* the caller takes the result of a call
Return ==
    /\ call # Idle
    /\ call' = Idle
    /\ UNCHANGED <<kernel_vars, stats>>

Next ==
    \/ SetDevice
    \/ SetHyperparams
    \/ TransformX
    \/ KernelSpecificGradient
    \/ Return

Spec == Init /\ [][Next]_vars

----------------------------------------------------------------------------
(* Exact arithmetic for the gradient: a number is a fraction <<num, den>>  *)
(* in lowest terms with den > 0; a vector is a sequence of numbers and a   *)
(* matrix a sequence of rows.                                              *)

Abs(n) == IF n < 0 THEN -n ELSE n

RECURSIVE GCD(_, _)
GCD(a, b) == IF b = 0 THEN a ELSE GCD(b, a % b)

Frac(n, d) ==
    LET g == GCD(Abs(n), Abs(d))
    IN  IF d < 0 THEN <<(-n) \div g, (-d) \div g>> ELSE <<n \div g, d \div g>>

RInt(n) == <<n, 1>>

RAdd(x, y) == Frac(x[1] * y[2] + y[1] * x[2], x[2] * y[2])

RSub(x, y) == Frac(x[1] * y[2] - y[1] * x[2], x[2] * y[2])

RMul(x, y) == Frac(x[1] * y[1], x[2] * y[2])

RDiv(x, y) == Frac(x[1] * y[2], x[2] * y[1])

RNeg(x) == <<-x[1], x[2]>>

\* inf or nan
NonFinite == <<0, 0>>

RECURSIVE RSum(_, _)
RSum(f, n) == IF n = 0 THEN RInt(0) ELSE RAdd(f[n], RSum(f, n - 1))

Dot(u, v) == RSum([i \in 1..Len(u) |-> RMul(u[i], v[i])], Len(u))

MatVec(a, v) == AsSeq([i \in 1..Len(a) |-> Dot(a[i], v)], Len(a))

Column(a, j) == AsSeq([i \in 1..Len(a) |-> a[i][j]], Len(a))

MatMul(a, b) ==
    AsSeq([i \in 1..Len(a) |->
        AsSeq([j \in 1..Len(b[1]) |-> Dot(a[i], Column(b, j))], Len(b[1]))], Len(a))

Trace(a) == RSum([i \in 1..Len(a) |-> a[i][i]], Len(a))

RMat(m) ==
    AsSeq([i \in 1..Len(m) |->
        AsSeq([j \in 1..Len(m[i]) |-> RInt(m[i][j])], Len(m[i]))], Len(m))

RVec(v) == AsSeq([i \in 1..Len(v) |-> RInt(v[i])], Len(v))

\* the matrix a without its first row and column, less the part the first
\* pivot explains (one step of the factorisation)
Schur(a) ==
    AsSeq([i \in 1..(Len(a) - 1) |-> AsSeq([j \in 1..(Len(a) - 1) |->
        RSub(a[i + 1][j + 1], RDiv(RMul(a[i + 1][1], a[1][j + 1]), a[1][1]))],
        Len(a) - 1)], Len(a) - 1)

\* the factorisation a = L L^T exists: every pivot is positive
RECURSIVE CholeskyExists(_)
CholeskyExists(a) ==
    /\ a[1][1][1] > 0
    /\ Len(a) > 1 => CholeskyExists(Schur(a))

\* the inverse of a symmetric positive definite matrix
RECURSIVE Inverse(_)
Inverse(a) ==
    IF Len(a) = 1 THEN <<<<RDiv(RInt(1), a[1][1])>>>>
    ELSE LET n == Len(a)
             d == a[1][1]
             si == Inverse(Schur(a))
             below == AsSeq([i \in 1..(n - 1) |-> a[i + 1][1]], n - 1)
             u == AsSeq([i \in 1..(n - 1) |-> RDiv(MatVec(si, below)[i], d)], n - 1)
             corner == RAdd(RDiv(RInt(1), d), RDiv(Dot(below, u), d))
         IN  AsSeq([i \in 1..n |-> AsSeq([j \in 1..n |->
                IF i = 1 /\ j = 1 THEN corner
                ELSE IF i = 1 THEN RNeg(u[j - 1])
                ELSE IF j = 1 THEN RNeg(u[i - 1])
                ELSE si[i - 1][j - 1]], n)], n)

----------------------------------------------------------------------------
(* cho_solvers, as exact_nmll_reg_grad uses them.  A Cholesky factor is    *)
(* held as the matrix it factors, which determines it.                     *)

\* cpu_cho_calcs / gpu_cho_calcs (lines 46-47): the weights, the factor,
\* the trace of the inverse and the inverse of the factor, or a failure
\* if the matrix has no factorisation
cho_calcs(z_trans_z, z_trans_y, lambda_) ==
    IF ~CholeskyExists(z_trans_z)
    THEN [failed |-> TRUE]
    ELSE [failed |-> FALSE,
          weights |-> MatVec(Inverse(z_trans_z), z_trans_y),
          z_trans_z_chol |-> [factor_of |-> z_trans_z],
          id_trace |-> Trace(Inverse(z_trans_z)),
          chol_inv |-> [inverse_of_factor_of |-> z_trans_z]]

\* cpu_cho_solver / gpu_cho_solver (line 70): (L L^T)^-1 b
cho_solver(z_trans_z_chol, b) == MatMul(Inverse(z_trans_z_chol.factor_of), b)

\* (chol_inv**2).sum() (line 58): the squares of the entries of L^-1 add up
\* to the trace of (L L^T)^-1
SumOfSquares(chol_inv) == Trace(Inverse(chol_inv.inverse_of_factor_of))

----------------------------------------------------------------------------
(* exact_nmll_reg_grad                                                     *)

RegularizedByOne(z_trans_z, lambda_) ==
    AsSeq([i \in 1..Len(z_trans_z) |-> AsSeq([j \in 1..Len(z_trans_z) |->
        IF i = j THEN RAdd(z_trans_z[i][j], RInt(1))
        ELSE z_trans_z[i][j]], Len(z_trans_z))], Len(z_trans_z))

\* line 40: z_trans_z.flat[::z_trans_z.shape[0]+1] += hparams[0]**2
Regularized(z_trans_z, lambda_) ==
    AsSeq([i \in 1..Len(z_trans_z) |-> AsSeq([j \in 1..Len(z_trans_z) |->
        IF i = j THEN RAdd(z_trans_z[i][j], RInt(lambda_ * lambda_))
        ELSE z_trans_z[i][j]], Len(z_trans_z))], Len(z_trans_z))

\* lines 55-58
dnll_dlambda(st, z, c) ==
    LET l == RInt(st.hparams[1])
        l3 == RInt(st.hparams[1] * st.hparams[1] * st.hparams[1])
    IN  RAdd(RAdd(RAdd(
            RMul(RDiv(RInt(1), l3),
                 RSub(Dot(st.z_trans_y, c.weights), RInt(st.y_trans_y))),
            RMul(RDiv(RInt(1), l), Dot(c.weights, c.weights))),
            RDiv(RInt(st.ndatapoints - Len(z[1])), l)),
            RMul(l, SumOfSquares(c.chol_inv)))

\* lines 62-64, z being the array z_trans_z as it stands after line 40
dnll_dbeta(st, z, c) ==
    RAdd(RMul(RSub(Dot(c.weights, MatVec(z, c.weights)),
                   Dot(st.z_trans_y, c.weights)),
              RDiv(RInt(1), RInt(st.hparams[1] * st.hparams[1] * st.hparams[2]))),
         RDiv(c.id_trace, RInt(st.hparams[2])))

\* lines 70-74 for i = m - 1
dnll_dsigma(st, c, m) ==
    LET trace_term == cho_solver(c.z_trans_z_chol, st.inner_deriv[m])
        first == RMul(RInt(2), Dot(c.weights, st.dz_dsigma_ty[m]))
        second == Dot(c.weights, MatVec(st.inner_deriv[m], c.weights))
    IN  RAdd(RMul(RSub(first, second),
                  RDiv(RInt(-1), RInt(2 * st.hparams[1] * st.hparams[1]))),
             RDiv(Trace(trace_term), RInt(2)))

GradientShifted(st, z, c) ==
    [i \in 1..Len(st.hparams) |->
        IF i = 1 THEN dnll_dbeta(st, z, c)
        ELSE IF i = 2 THEN dnll_dlambda(st, z, c)
        ELSE dnll_dsigma(st, c, i - 2)]

\* lines 49-75: grad before it is scaled
Gradient(st, z, c) ==
    [i \in 1..Len(st.hparams) |->
        IF i = 1 THEN dnll_dlambda(st, z, c)
        ELSE IF i = 2 THEN dnll_dbeta(st, z, c)
        ELSE dnll_dsigma(st, c, i - 2)]

ScaledTwice(grad, hparams) ==
    [i \in 1..Len(grad) |-> RMul(RMul(grad[i], RInt(hparams[i])), RInt(hparams[i]))]

\* line 77: grad *= hparams
Scaled(grad, hparams) ==
    [i \in 1..Len(grad) |-> RMul(grad[i], RInt(hparams[i]))]

\* lines 40-78.  `after` is the caller's z_trans_z when the call ends.
exact_nmll_reg_grad(st, dev) ==
    LET z == Regularized(st.z_trans_z, st.hparams[1])
        c == cho_calcs(z, st.z_trans_y, st.hparams[1])
        base == [op |-> "exact_nmll_reg_grad", device |-> dev, entry |-> st,
                 after |-> z]
    IN  IF c.failed
        THEN base @@ [outcome |-> "LinAlgError", z_trans_z_chol |-> NoArray,
                      weights |-> NoArray, id_trace |-> NonFinite,
                      unscaled |-> NoArray, grad |-> NoArray]
        ELSE IF st.hparams[1] = 0
        THEN base @@ [outcome |-> "ok", z_trans_z_chol |-> c.z_trans_z_chol,
                      weights |-> c.weights, id_trace |-> c.id_trace,
                      unscaled |-> [i \in 1..Len(st.hparams) |-> NonFinite],
                      grad |-> [i \in 1..Len(st.hparams) |-> NonFinite]]
        ELSE base @@ [outcome |-> "ok", z_trans_z_chol |-> c.z_trans_z_chol,
                      weights |-> c.weights, id_trace |-> c.id_trace,
                      unscaled |-> Gradient(st, z, c),
                      grad |-> Scaled(Gradient(st, z, c), st.hparams)]

----------------------------------------------------------------------------
(* The caller of exact_nmll_reg_grad: it aggregates the statistics of the  *)
(* features z, their derivative dz and the targets y of a fit, and hands   *)
(* them over with the hyperparameter vector of the kernel it fits.         *)

MaxCalls == 2       \* calls of exact_nmll_reg_grad on the same arrays

ZVals == [1..2 -> [1..2 -> {0, 1}]]

DzVals == {<<<<0, 0>>, <<0, 0>>>>, <<<<1, 0>>, <<0, 1>>>>, <<<<0, 1>>, <<1, 1>>>>}

YVals == {<<1, 0>>, <<1, 1>>, <<1, 2>>}

\* <<lambda_, beta_, sigma>> of a kernel with one kernel-specific
\* hyperparameter
GenericHparams == {<<0, 1, 2>>, <<1, 1, 1>>, <<1, 2, 2>>, <<2, 2, 1>>}

Transposed(m) == [j \in 1..Len(m[1]) |-> [i \in 1..Len(m) |-> m[i][j]]]

IntDot(u, v) == SumTo([i \in 1..Len(u) |-> u[i] * v[i]], Len(u))

IntMatMul(a, b) ==
    [i \in 1..Len(a) |-> [j \in 1..Len(b[1]) |-> IntDot(a[i], Transposed(b)[j])]]

IntMatVec(a, v) == [i \in 1..Len(a) |-> IntDot(a[i], v)]

Statistics(kernel, hparams, z, dz, y) ==
    [kernel |-> kernel,
     hparams |-> hparams,
     z_trans_z |-> RMat(IntMatMul(Transposed(z), z)),
     z_trans_y |-> RVec(IntMatVec(Transposed(z), y)),
     y_trans_y |-> IntDot(y, y),
     ndatapoints |-> Len(y),
     dz_dsigma_ty |-> <<RVec(IntMatVec(Transposed(dz), y))>>,
     inner_deriv |-> <<RMat([i \in 1..Len(z[1]) |-> [j \in 1..Len(z[1]) |->
                        IntMatMul(Transposed(dz), z)[i][j]
                        + IntMatMul(Transposed(z), dz)[i][j]]])>>,
     ncalls |-> 0]

BuildStatistics ==
    /\ call = Idle
    /\ stats = NoStats
    /\ \E z \in ZVals, dz \in DzVals, y \in YVals :
        \/ stats' = Statistics("GraphRBF", hyperparams, z, dz, y)
        \/ \E h \in GenericHparams : stats' = Statistics("generic", h, z, dz, y)
    /\ UNCHANGED <<kernel_vars, call>>

ExactNmllRegGrad ==
    /\ call = Idle
    /\ stats # NoStats
    /\ stats.ncalls < MaxCalls
    /\ \E dev \in Devices :
        /\ call' = exact_nmll_reg_grad(stats, dev)
        /\ stats' = [stats EXCEPT !.z_trans_z = call'.after, !.ncalls = @ + 1]
    /\ UNCHANGED kernel_vars

\* the caller lets go of the arrays of a fit
DropStatistics ==
    /\ call = Idle
    /\ stats # NoStats
    /\ stats' = NoStats
    /\ UNCHANGED <<kernel_vars, call>>

InitGrad ==
    /\ Construct(<<2, 2, 2>>, 2, 1, "cpu", TRUE, FALSE)
    /\ stats = NoStats
    /\ call = Idle

SetHyperparamsGrad ==
    /\ call = Idle
    /\ \E lambda_ \in HVals, sigma \in HVals :
        /\ hyperparams' = <<lambda_, sigma>>
        /\ UNCHANGED <<xdim, random_seed, dtype, num_freqs, num_rffs,
                       graph_average, padded_dims, init_calc_freqsize,
                       radem_diag, chi_arr, conv_func, grad_func, device,
                       stats, call>>

NextGrad ==
    \/ SetHyperparamsGrad
    \/ BuildStatistics
    \/ ExactNmllRegGrad
    \/ DropStatistics
    \/ Return

SpecGrad == InitGrad /\ [][NextGrad]_vars

----------------------------------------------------------------------------
(* Helpers of the properties.                                              *)

FeatureOps == {"transform_x", "kernel_specific_gradient"}

FeatureCallOk(c) == c.op \in FeatureOps /\ c.outcome = "ok"

Sign(n) == IF n > 0 THEN 1 ELSE IF n < 0 THEN -1 ELSE 0

\* u and v denote the same number
FeatEq(u, v) ==
    /\ Sign(u.sum) = Sign(v.sum)
    /\ u.sum * u.sum * v.div * v.div * v.sqrtdiv
         = v.sum * v.sum * u.div * u.div * u.sqrtdiv

\* every length is in the range the data model gives, [kernel_width + 1, L]
ValidLengths(c) ==
    /\ c.sequence_length # NoArray
    /\ \A k \in 1..c.input_x.shape[1] :
          /\ c.sequence_length[k] >= KernelWidth + 1
          /\ c.sequence_length[k] <= c.input_x.shape[2]

\* x and y agree on the nodes of graph k below length n
AgreeBelow(x, y, k, n) ==
    \A b \in 1..x.shape[2], c \in 1..x.shape[3] :
        b <= n => At(x, k, b, c) = At(y, k, b, c)

IsPow2(p) == \E e \in 0..p : Pow2(e) = p

SmallestPow2AtLeast(p, n) ==
    /\ IsPow2(p)
    /\ p >= n
    /\ \A q \in 1..(p - 1) : IsPow2(q) => q < n

SmallestMultipleAtLeast(r, m, n) ==
    /\ r % m = 0
    /\ r >= n
    /\ r - m < n

\* the three-dimensional array x as nested sequences
Nested(x) ==
    [k \in 1..x.shape[1] |-> [b \in 1..x.shape[2] |-> [c \in 1..x.shape[3] |->
        At(x, k, b, c)]]]

\* On graphs without padding transform_x returns what the reference builder
\* of the tests returns for windows of width 1 (with "full" normalisation
\* if the kernel averages).
TransformMatchesReference ==
    (/\ call.op = "transform_x"
     /\ call.outcome = "ok"
     /\ \A k \in 1..call.input_x.shape[1] :
            call.sequence_length[k] = call.input_x.shape[2])
    => LET ref == get_features(Nested(call.input_x), KernelWidth, padded_dims,
                               radem_diag.data, chi_arr.data, num_freqs,
                               call.input_x.shape[2], hyperparams[2],
                               call.sequence_length,
                               IF graph_average THEN "full" ELSE "none")
       IN  \A k \in 1..call.input_x.shape[1] : \A col \in 1..num_rffs :
                FeatEq(call.result[k][col], ref[k][col])

----------------------------------------------------------------------------
(* C1.  Padding invariance of transform_x: two inputs of the same shape    *)
(* that agree on the nodes of graph k below sequence_length[k] give the    *)
(* same feature row k.                                                     *)

C1_PaddingInvariance ==
    (call.op = "transform_x" /\ call.outcome = "ok" /\ ValidLengths(call)) =>
        \A other \in Arrays(call.input_x.shape) :
            \A k \in 1..call.input_x.shape[1] :
                AgreeBelow(call.input_x, other, k, call.sequence_length[k]) =>
                    \A col \in 1..num_rffs :
                        FeatEq(transform_x(other, call.sequence_length).result[k][col],
                               call.result[k][col])

----------------------------------------------------------------------------
(* Helpers of the properties of exact_nmll_reg_grad.                       *)

GradCall(c) == c.op = "exact_nmll_reg_grad"

\* what cho_calcs handed back in the call c
Calcs(c) ==
    [weights |-> c.weights, z_trans_z_chol |-> c.z_trans_z_chol,
     id_trace |-> c.id_trace, chol_inv |-> [inverse_of_factor_of |-> c.after]]

\* G + lambda^2 I for the statistics st
Gprime(st) ==
    [i \in 1..Len(st.z_trans_z) |-> [j \in 1..Len(st.z_trans_z) |->
        IF i = j THEN RAdd(st.z_trans_z[i][j], RInt(st.hparams[1] * st.hparams[1]))
        ELSE st.z_trans_z[i][j]]]

\* a symmetric 2 x 2 matrix is positive definite: its leading minors are
\* positive
PositiveDefinite(a) ==
    /\ a[1][1][1] > 0
    /\ RSub(RMul(a[1][1], a[2][2]), RMul(a[1][2], a[2][1]))[1] > 0

\* index of sigma in self.hyperparams (hyperparams[1] of the code)
SigmaIndex == 2

----------------------------------------------------------------------------
(* C2.  The gradient for the global amplitude, before it is scaled, is     *)
(* [(w^T G w) - (g^T w)] / (lambda^2 beta) + idTrace / beta, G being the   *)
(* matrix the caller supplied and w = (G + lambda^2 I)^-1 g.               *)

C2_BetaUsesSuppliedMatrix ==
    (GradCall(call) /\ call.outcome = "ok" /\ call.entry.hparams[1] > 0) =>
        LET st == call.entry
            w == call.weights
            l2b == RInt(st.hparams[1] * st.hparams[1] * st.hparams[2])
        IN  /\ MatVec(Gprime(st), w) = st.z_trans_y
            /\ call.unscaled[2] =
                    RAdd(RDiv(RSub(Dot(w, MatVec(st.z_trans_z, w)),
                                   Dot(st.z_trans_y, w)), l2b),
                         RDiv(call.id_trace, RInt(st.hparams[2])))

----------------------------------------------------------------------------
(* C3.  The returned gradient has one entry per hyperparameter: entry 0    *)
(* is the lambda gradient, entry 1 the gradient of lines 62-64 for beta,   *)
(* entry 2 + m the kernel-specific gradient from inner_deriv[:,:,m] and    *)
(* dz_dsigma_ty[:,m], each multiplied once by its hyperparameter.          *)

----------------------------------------------------------------------------
(* C4.  When G + lambda^2 I is not positive definite the call ends in the  *)
(* numerical error of the factorisation and returns no factor, weights or  *)
(* gradient.                                                               *)

----------------------------------------------------------------------------
(* C10.  For the hyperparameter vector of a GraphRBF kernel the returned   *)
(* gradient entry at the index of sigma is the kernel-specific gradient    *)
(* computed from inner_deriv and dz_dsigma_ty, scaled by sigma.            *)

C10_SigmaGetsKernelSpecificGradient ==
    (/\ GradCall(call)
     /\ call.outcome = "ok"
     /\ call.entry.kernel = "GraphRBF"
     /\ call.entry.inner_deriv[1] # RMat(<<<<0, 0>>, <<0, 0>>>>)
     /\ call.entry.hparams[1] > 0)
    => call.grad[SigmaIndex] =
            RMul(RInt(call.entry.hparams[SigmaIndex]),
                 dnll_dsigma(call.entry, Calcs(call), 1))

----------------------------------------------------------------------------
(* C5.  A feature call with sequence lengths None or with an input that    *)
(* is not three-dimensional ends in ValueError before any numeric work: no *)
(* buffer is allocated, the feature function is not called, nothing is     *)
(* returned and the kernel is left as it was.                              *)

C5_ValidationBeforeWork ==
    [][(/\ call = Idle
        /\ call'.op \in FeatureOps
        /\ \/ call'.sequence_length = NoArray
           \/ Len(call'.input_x.shape) # 3)
       => (/\ call'.outcome = "ValueError"
           /\ call'.allocs = 0
           /\ call'.func_calls = 0
           /\ call'.result = NoArray
           /\ call'.dz_dsigma = NoArray
           /\ UNCHANGED kernel_vars)]_vars

C5_Witness ==
    /\ call.op = "transform_x"
    /\ call.sequence_length # NoArray
    /\ Len(call.input_x.shape) = 2
    /\ call.outcome = "ValueError"
    /\ conv_func # None

----------------------------------------------------------------------------
(* C6.  A feature call on a kernel with a device set, given some sequence  *)
(* length below the kernel width, ends in ValueError and returns no        *)
(* feature matrix.                                                         *)

C6_ShortLengthRejected ==
    (/\ call.op \in FeatureOps
     /\ conv_func # None
     /\ Len(call.input_x.shape) = 3
     /\ call.sequence_length # NoArray
     /\ \E k \in 1..call.input_x.shape[1] : call.sequence_length[k] < KernelWidth)
    => (call.outcome = "ValueError" /\ call.result = NoArray)

----------------------------------------------------------------------------
(* C7.  The sign diagonal and the chi vector hold the values the           *)
(* constructor drew, whatever device changes and feature calls happened.   *)

C7_SeededNeverMutated ==
    /\ radem_diag.data = RademDraw(random_seed, init_calc_freqsize)
    /\ chi_arr.data = ChiDraw(random_seed, padded_dims, num_freqs)

\* As amended: the sign diagonal always holds the constructor's draw; the
\* chi vector holds the draw until the first device change and from then
\* on the draw converted to the kernel's dtype.
C7_SeededUpToDtype ==
    /\ radem_diag.data = RademDraw(random_seed, init_calc_freqsize)
    /\ conv_func = None =>
          chi_arr.data = ChiDraw(random_seed, padded_dims, num_freqs)
    /\ conv_func # None =>
          chi_arr.data = AsType(ChiDraw(random_seed, padded_dims, num_freqs), dtype)

C7_Witness ==
    /\ call.op = "kernel_specific_gradient"
    /\ call.outcome = "ok"
    /\ dtype = "float32"
    /\ radem_diag.lib = "cp"
    /\ chi_arr.data # ChiDraw(random_seed, padded_dims, num_freqs)

----------------------------------------------------------------------------
(* C8.  With averaging, feature row k of transform_x is the row without    *)
(* averaging divided by cutpoint = sequence_length[k] - kernel_width + 1.  *)

C8_NormalizationConsistency ==
    (/\ call.op = "transform_x"
     /\ call.outcome = "ok"
     /\ graph_average
     /\ ValidLengths(call))
    => \A k \in 1..call.input_x.shape[1] : \A col \in 1..num_rffs :
         LET none_row == ConvFunc(Reshaped(call.input_x, hyperparams[2]),
                                  radem_diag.data, num_rffs, chi_arr.data, FALSE)[k]
             cutpoint == call.sequence_length[k] - KernelWidth + 1
         IN  FeatEq(call.result[k][col],
                    Feat(none_row[col].sum, none_row[col].div * cutpoint,
                         none_row[col].sqrtdiv))

----------------------------------------------------------------------------
(* C9.  padded_dims is the smallest power of two that is at least          *)
(* kernel_width * xdim[2], and init_calc_freqsize is the smallest multiple *)
(* of padded_dims that is at least num_freqs.                              *)

----------------------------------------------------------------------------
(* C12.  exact_nmll_reg_grad leaves the arrays and the hyperparameters it  *)
(* was given as they were, whether it returns or fails, so that a further  *)
(* call with the same objects has the same outcome and returns the same    *)
(* factor, weights and gradient.                                           *)

\* the results of a call of exact_nmll_reg_grad
Returned(c) ==
    [outcome |-> c.outcome, z_trans_z_chol |-> c.z_trans_z_chol,
     weights |-> c.weights, grad |-> c.grad]

C12_ArgumentsUnchanged ==
    GradCall(call) =>
        /\ stats.z_trans_z = call.entry.z_trans_z
        /\ stats.z_trans_y = call.entry.z_trans_y
        /\ stats.inner_deriv = call.entry.inner_deriv
        /\ stats.dz_dsigma_ty = call.entry.dz_dsigma_ty
        /\ stats.hparams = call.entry.hparams
        /\ Returned(exact_nmll_reg_grad(stats, call.device)) = Returned(call)

----------------------------------------------------------------------------
(* The reference feature builder get_features, one step of its loops at a  *)
(* time.  While it runs, `call` holds its arguments, its local variables   *)
(* and a log of the indices it has used (0-based, as in the code).         *)

MaxNumFreqs == 5    \* num_freqs of the builder ranges over 1..MaxNumFreqs

KernelWidths == {1, 2}

AaDims == {1, 2}

Normalizations == {"none", "sqrt", "full"}

\* rng.uniform(size = (ndatapoints, num_aas, aa_dim)) for the generator
\* seeded with seed, in eighths of a turn
XDraw(seed, ndatapoints, num_aas, aa_dim) ==
    [k \in 1..ndatapoints |-> [b \in 1..num_aas |-> [c \in 1..aa_dim |->
        (seed + k + b * c) % 3]]]

\* conv_testing_functions.py lines 12-41 (sine-cosine mode)
get_initial_matrices_fht(ndatapoints, kernel_width, aa_dim, num_aas, nfreqs, seed) ==
    LET dim2 == Pow2(CeilLog2(kernel_width * aa_dim))
        radem_size == CeilDiv(nfreqs, dim2) * dim2
    IN  [dim2 |-> dim2,
         num_blocks |-> num_aas - kernel_width + 1,
         xdata |-> XDraw(seed, ndatapoints, num_aas, aa_dim),
         sequence_lengths |-> [k \in 1..ndatapoints |->
            kernel_width + 1 + ((seed + k) % (num_aas - kernel_width))],
         features |-> [k \in 1..ndatapoints |-> [col \in 1..(2 * nfreqs) |-> ZeroFeat]],
         s_mat |-> ChiDraw(seed, dim2, nfreqs),
         radem |-> RademDraw(seed, radem_size)]

\* line 104
NumRepeats(nfreqs, dim2) == CeilDiv(nfreqs, dim2)

EndPositionUnclipped(i, dim2, nfreqs) == (i + 1) * dim2 - i * dim2

\* lines 111-112
EndPosition(i, dim2, nfreqs) == Min((i + 1) * dim2, nfreqs) - i * dim2

\* lines 92-93 of get_reshaped_x: shape[2] / (shape[2] - 1) on Python
\* integers raises ZeroDivisionError for a block of width 1
SimplexScalarDefined(dim2) == dim2 - 1 # 0

\* the call ends with an exception
Raised(c, exception) ==
    [c EXCEPT !.pc = "done", !.outcome = exception, !.features = NoArray]

\* lines 104-106
GetFeaturesCall ==
    /\ call = Idle
    /\ \E kernel_width \in KernelWidths, aa_dim \in AaDims,
          nfreqs \in 1..MaxNumFreqs, seed \in Seeds, sigma \in HVals,
          normalization \in Normalizations :
        LET m == get_initial_matrices_fht(2, kernel_width, aa_dim,
                                          kernel_width + 2, nfreqs, seed)
        IN  call' = [op |-> "get_features", xdata |-> m.xdata,
                     kernel_width |-> kernel_width, dim2 |-> m.dim2,
                     radem |-> m.radem, s_mat |-> m.s_mat,
                     num_freqs |-> nfreqs, num_blocks |-> m.num_blocks,
                     sigma |-> sigma, sequence_lengths |-> m.sequence_lengths,
                     normalization |-> normalization,
                     num_repeats |-> NumRepeats(nfreqs, m.dim2),
                     pc |-> "repeat", i |-> 0, j |-> 0, end_position |-> 0,
                     counter |-> 0, reshaped_x |-> NoArray,
                     features |-> m.features,
                     writes |-> [col \in 1..(2 * nfreqs) |-> 0],
                     log |-> <<>>, slices |-> {}, outcome |-> "running"]
    /\ UNCHANGED <<kernel_vars, stats>>

\* lines 108-114: one pass of the loop over the repeats, up to the loop
\* over the positions
GetFeaturesRepeat ==
    /\ call # Idle
    /\ call.op = "get_features"
    /\ call.pc = "repeat"
    /\ call.i < call.num_repeats
    /\ LET start == call.i * call.dim2
           end_position == EndPosition(call.i, call.dim2, call.num_freqs)
           sliced == [call EXCEPT !.slices = @ \cup {<<start, start + call.dim2>>}]
       IN  call' =
            IF start >= Len(call.radem[1][1])
            THEN Raised(sliced, "ValueError")
            ELSE IF ~SimplexScalarDefined(call.dim2)
            THEN Raised(sliced, "ZeroDivisionError")
            ELSE LET entered ==
                        [sliced EXCEPT
                            !.reshaped_x = get_reshaped_x(call.xdata, call.kernel_width,
                                call.dim2, call.radem, call.num_blocks, call.i),
                            !.end_position = end_position,
                            !.counter = start,
                            !.j = 0]
                 IN  IF end_position > 0
                     THEN [entered EXCEPT !.pc = "position"]
                     ELSE [entered EXCEPT !.i = @ + 1]
    /\ UNCHANGED <<kernel_vars, stats>>

\* lines 118-127 for row k: the sums of the cosines and of the sines of
\* temp over the blocks below the cutpoint, normalised
FeaturePair(c, k) ==
    LET cutpoint == c.sequence_lengths[k] - c.kernel_width + 1
        temp == [b \in 1..cutpoint |->
                    c.reshaped_x[k][b][c.j + 1] * c.s_mat[c.counter + 1] * c.sigma]
    IN  [cosine |-> Normalized(SumTo([b \in 1..cutpoint |-> Cos8(temp[b])], cutpoint),
                               cutpoint, c.normalization),
         sine |-> Normalized(SumTo([b \in 1..cutpoint |-> Sin8(temp[b])], cutpoint),
                             cutpoint, c.normalization)]

\* lines 116-130: one pass of the loop over the positions of a repeat
GetFeaturesPosition ==
    /\ call # Idle
    /\ call.op = "get_features"
    /\ call.pc = "position"
    /\ LET cos_col == 2 * call.counter
           sin_col == 2 * call.counter + 1
           used == [call EXCEPT !.log = Append(@,
                        [i |-> call.i, j |-> call.j, weight |-> call.counter,
                         cos_col |-> cos_col, sin_col |-> sin_col,
                         slice |-> <<call.i * call.dim2, (call.i + 1) * call.dim2>>])]
       IN  call' =
            IF call.counter >= Len(call.s_mat) \/ sin_col >= 2 * call.num_freqs
            THEN Raised(used, "IndexError")
            ELSE LET written ==
                        [used EXCEPT
                            !.features = [k \in 1..Len(call.xdata) |->
                                [call.features[k] EXCEPT
                                    ![cos_col + 1] = FeaturePair(call, k).cosine,
                                    ![sin_col + 1] = FeaturePair(call, k).sine]],
                            !.writes = [@ EXCEPT ![cos_col + 1] = @ + 1,
                                                 ![sin_col + 1] = @ + 1],
                            !.counter = @ + 1,
                            !.j = @ + 1]
                 IN  IF call.j + 1 < call.end_position
                     THEN written
                     ELSE [written EXCEPT !.pc = "repeat", !.i = @ + 1]
    /\ UNCHANGED <<kernel_vars, stats>>

\* lines 132-133: features *= np.sqrt(1 / float(num_freqs)); return
GetFeaturesReturn ==
    /\ call # Idle
    /\ call.op = "get_features"
    /\ call.pc = "repeat"
    /\ call.i >= call.num_repeats
    /\ call' = [call EXCEPT
            !.pc = "done",
            !.outcome = "ok",
            !.features = [k \in 1..Len(call.xdata) |->
                [col \in 1..(2 * call.num_freqs) |->
                    Feat(call.features[k][col].sum, call.features[k][col].div,
                         call.features[k][col].sqrtdiv * call.num_freqs)]]]
    /\ UNCHANGED <<kernel_vars, stats>>

\* the caller takes the features, or the exception, of a finished call
GetFeaturesDone ==
    /\ call # Idle
    /\ call.op = "get_features"
    /\ call.pc = "done"
    /\ Return

InitFeat ==
    /\ Construct(<<2, 2, 2>>, 2, 1, "cpu", TRUE, FALSE)
    /\ stats = NoStats
    /\ call = Idle

NextFeat ==
    \/ GetFeaturesCall
    \/ GetFeaturesRepeat
    \/ GetFeaturesPosition
    \/ GetFeaturesReturn
    \/ GetFeaturesDone

SpecFeat == InitFeat /\ [][NextFeat]_vars

\* a finished call of the builder
FeaturesCall(c) == c # Idle /\ c.op = "get_features" /\ c.pc = "done"

\* the loops give what the builder gives as a function of its arguments
GetFeaturesMatchesFunction ==
    (FeaturesCall(call) /\ call.outcome = "ok") =>
        LET ref == get_features(call.xdata, call.kernel_width, call.dim2,
                                call.radem, call.s_mat, call.num_freqs,
                                call.num_blocks, call.sigma,
                                call.sequence_lengths, call.normalization)
        IN  \A k \in 1..Len(call.xdata) : \A col \in 1..(2 * call.num_freqs) :
                FeatEq(call.features[k][col], ref[k][col])

----------------------------------------------------------------------------
(* C11.  The loops of get_features visit repeat i = 0..ceil(num_freqs /    *)
(* dim2) - 1 and position j = 0..min((i+1) dim2, num_freqs) - i dim2 - 1;  *)
(* frequency i dim2 + j goes to columns 2 (i dim2 + j) and 2 (i dim2 + j)  *)
(* + 1 with weight index i dim2 + j and sign slice [i dim2, (i+1) dim2).   *)
(* Every one of the 2 num_freqs columns is written exactly once and no     *)
(* index leaves the feature matrix, the weights or the sign diagonal.      *)

\* the finished call c followed the schedule and stayed inside its arrays
FollowedSchedule(c) ==
    LET radem_size == Len(c.radem[1][1])
    IN  /\ c.outcome = "ok"
        /\ \A col \in 1..(2 * c.num_freqs) : c.writes[col] = 1
        /\ Len(c.log) = c.num_freqs
        /\ \A n \in 1..Len(c.log) :
            LET e == c.log[n]
                f == e.i * c.dim2 + e.j
            IN  /\ f = n - 1
                /\ e.i \in 0..(CeilDiv(c.num_freqs, c.dim2) - 1)
                /\ e.j \in 0..(Min((e.i + 1) * c.dim2, c.num_freqs) - e.i * c.dim2 - 1)
                /\ e.cos_col = 2 * f
                /\ e.sin_col = 2 * f + 1
                /\ e.weight = f
                /\ e.slice = <<e.i * c.dim2, (e.i + 1) * c.dim2>>
                /\ e.sin_col < 2 * c.num_freqs
                /\ e.weight < Len(c.s_mat)
                /\ e.slice[2] <= radem_size
        /\ \A sl \in c.slices : sl[1] >= 0 /\ sl[2] <= radem_size

\* as stated: for every power-of-two dim2
C11_EveryColumnOnce ==
    FeaturesCall(call) => FollowedSchedule(call)

\* for every power-of-two dim2 >= 2; while the loops run no column has
\* been written twice
C11_EveryColumnOnceFromTwo ==
    /\ (FeaturesCall(call) /\ call.dim2 >= 2) => FollowedSchedule(call)
    /\ (call # Idle /\ call.op = "get_features" /\ call.outcome # "IndexError") =>
            \A col \in 1..(2 * call.num_freqs) : call.writes[col] <= 1

C11_Witness ==
    /\ FeaturesCall(call)
    /\ call.outcome = "ok"
    /\ call.dim2 = 2
    /\ call.num_freqs = 5
    /\ Len(call.log) = 5
    /\ call.log[5].i = 2
    /\ call.log[5].cos_col = 8

====
